---- MODULE Spec2Model ----
(***************************************************************************)
(* A model of the PDF text pipeline of pdf_processor.py: the text          *)
(* normalizer (_clean_text, _clean_text_fast), the quality scorer          *)
(* (_evaluate_text_quality_fast), the best-candidate selector              *)
(* (_extract_text_with_enhanced_ocr), the chunker (chunk_text) and the     *)
(* extraction orchestrator (extract_text_from_pdf, process_pdf).           *)
(*                                                                         *)
(* A text is a sequence of characters.  A Hangul syllable is written as    *)
(* its romanization in capitals ("GIM" is U+AE40, "I" is U+C774); the      *)
(* modelled Latin letters are lower case, so the two never collide.        *)
(***************************************************************************)
EXTENDS Integers, Sequences, FiniteSets, TLC

VARIABLES
  \* the normalizer applied to a text, and again to its own output
  n_pc, n_input, n_first, n_second,
  \* the quality scorer applied to a text
  s_pc, s_text, s_score,
  \* chunk_text: its sentence units, their token counts, self.chunk_size,
  \* the loop's locals and the returned list
  c_pc, sentences, tokens, chunk_size, next_sentence, loop, returned,
  \* the module flags set by the imports, and PDFProcessor.use_ocr
  OCR_AVAILABLE, PYMUPDF_AVAILABLE, PDF2IMAGE_AVAILABLE, use_ocr,
  \* the use_ocr argument of the constructor, and whether the Tesseract
  \* engine answers pytesseract.get_tesseract_version()
  use_ocr_arg, tesseract_installed,
  \* the document's page count and whether a progress_callback is given
  n_pages, has_callback,
  \* whether the caller of process_pdf has abandoned the request
  abandoned,
  \* process_pdf and the extraction under it: where control is, the page
  \* loop's index and images, the text collected so far
  pc, page_i, images, doc_text,
  \* the selector's argument and locals for the current page
  sel_image, processed_image, sel_text, confidence,
  \* history: the recognition attempts of the current page, the candidate
  \* the selector chose, the per-page texts in the order collected, the
  \* percents passed to the callback, and the calls made to the renderer,
  \* the preprocessor and the recognition engine
  attempts, chosen, page_texts, progress,
  render_calls, preprocess_calls, ocr_calls,
  \* history: the numbers of the pages whose text was appended to the
  \* document text, in the order appended
  page_order,
  \* the outcome: running, done or failed, the error raised, the text
  \* extract_text_from_pdf returned and the chunks process_pdf returned
  status, error, extracted, chunks,
  \* LLMService.generate_answer_with_sources: where control is,
  \* self.use_fallback, the similar_chunks argument, the provider calls
  \* made so far (history), and the returned answer, model_used and source
  g_pc, use_fallback, similar_chunks, provider_calls, answer, model_used,
  source,
  \* api.py: the processing_status global; for each upload request, where
  \* its coroutine is, its file and its response; for each worker thread,
  \* where it is, the updates it has yet to make, the outcome of its call
  \* of process_pdf and its total_pages; the request whose coroutine runs
  \* on the event loop; and for each thread the block of writes it is in
  processing_status, u_pc, u_file, u_response, w_pc, w_todo, w_outcome,
  w_pages, loop_owner, pending,
  \* PDFQASystem.process_pdf: for each call, where it is, the number of
  \* chunks of its document, the loop's index and the result returned;
  \* the vector index; history: for each call the method of the store
  \* that last did nothing under it ("none" when each did its work), and
  \* the call that ran clear_all_vectors last (0 when none has)
  q_pc, q_n, q_i, q_result, vector_index, q_failed, last_clear,
  \* _split_into_sentences_with_names applied to a text: where it is, the
  \* text and the returned list
  p_pc, p_text, p_units

normalizerVars == << n_pc, n_input, n_first, n_second >>
scorerVars == << s_pc, s_text, s_score >>
chunkerVars ==
  << c_pc, sentences, tokens, chunk_size, next_sentence, loop, returned >>
environmentVars ==
  << OCR_AVAILABLE, PYMUPDF_AVAILABLE, PDF2IMAGE_AVAILABLE, use_ocr,
     use_ocr_arg, tesseract_installed, n_pages, has_callback, abandoned >>
selectorVars == << sel_image, processed_image, sel_text, confidence >>
historyVars ==
  << attempts, chosen, page_texts, progress, render_calls, preprocess_calls,
     ocr_calls, page_order >>
outcomeVars == << status, error, extracted, chunks >>
pipelineVars ==
  << environmentVars, pc, page_i, images, doc_text, selectorVars, historyVars,
     outcomeVars >>
coreVars == << normalizerVars, scorerVars, chunkerVars, pipelineVars >>
llmVars ==
  << g_pc, use_fallback, similar_chunks, provider_calls, answer, model_used,
     source >>
apiVars ==
  << processing_status, u_pc, u_file, u_response, w_pc, w_todo, w_outcome,
     w_pages, loop_owner, pending >>
storeVars == << q_pc, q_n, q_i, q_result, vector_index, q_failed, last_clear >>
serviceVars == << llmVars, apiVars, storeVars >>
splitterVars == << p_pc, p_text, p_units >>
restVars == << serviceVars, splitterVars >>
vars == << coreVars, restVars >>

(***************************************************************************)
(* Character classes of Python's re module (str patterns, Unicode).        *)
(***************************************************************************)

\* [김이박최정강조윤장임한오서신권황안송류고문양손배조백허유남심노정하곽성차주우구신임나전민]
Surnames ==
  { "GIM", "I", "BAK", "CHOE", "JEONG", "GANG", "JO", "YUN", "JANG", "IM",
    "HAN", "O", "SEO", "SIN", "GWON", "HWANG", "AN", "SONG", "RYU", "GO",
    "MUN", "YANG", "SON", "BAE", "BAEK", "HEO", "YU", "NAM", "SIM", "NO",
    "HA", "GWAK", "SEONG", "CHA", "JU", "U", "GU", "NA", "JEON", "MIN" }

\* [가-힣]: the surnames, the syllables of the correction table and of the
\* page-number pattern, and three syllables that are in neither.
Hangul ==
  Surnames \cup
  { "REUM", "SAENG", "NYEON", "WOL", "IL", "YEON", "RAK", "ME", "GAE", "BAL",
    "RYEOK", "JA", "GI", "SO", "GYEONG", "HAK", "SUL", "PE", "JI",
    "CHEOL", "SU", "YEONG" }

\* \s
Whitespace == { " ", "\n", "\t" }

\* \d
Digits == { "0", "1", "2", "3", "4", "5", "6", "7", "8", "9" }

\* [a-zA-Z]
Latin == { "a", "b", "c" }

IsSpace(c) == c \in Whitespace
IsHangul(c) == c \in Hangul
IsDigit(c) == c \in Digits
IsLatin(c) == c \in Latin
\* \w: letters of any script, digits and the underscore
IsWord(c) == IsHangul(c) \/ IsDigit(c) \/ IsLatin(c) \/ c = "_"

(***************************************************************************)
(* Scanning helpers.  Positions are 1-based; a match is given by the       *)
(* position after its last character, 0 meaning "no match here".           *)
(***************************************************************************)

\* the first position >= i that holds no character of class S (greedy S*)
RECURSIVE SkipWhile(_, _, _)
SkipWhile(t, i, S) ==
  IF i <= Len(t) /\ t[i] \in S THEN SkipWhile(t, i + 1, S) ELSE i

\* \b at the gap before position i
WordBoundary(t, i) ==
  LET before == i > 1 /\ i - 1 <= Len(t) /\ IsWord(t[i - 1])
      after == i >= 1 /\ i <= Len(t) /\ IsWord(t[i])
  IN  before # after

\* t[i .. j-1]
Slice(t, i, j) == IF j <= i THEN << >> ELSE SubSeq(t, i, j - 1)

\* str.strip()
Strip(t) ==
  LET n == Len(t)
      first == SkipWhile(t, 1, Whitespace)
      last == IF first > n THEN 0
              ELSE CHOOSE k \in first..n :
                     /\ ~IsSpace(t[k])
                     /\ \A m \in (k + 1)..n : IsSpace(t[m])
  IN  IF first > n THEN << >> ELSE SubSeq(t, first, last)

\* re.sub(pattern, repl, t): scan left to right; at the leftmost position
\* where the pattern matches, emit the replacement and resume after the
\* match; otherwise copy one character.  MatchEnd(t, i) is the position
\* after the match starting at i (0 if none), Repl(t, i, j) its replacement.
RECURSIVE SubFrom(_, _, _, _)
SubFrom(MatchEnd(_, _), Repl(_, _, _), t, i) ==
  IF i > Len(t) THEN << >>
  ELSE LET j == MatchEnd(t, i)
       IN  IF j = 0
           THEN << t[i] >> \o SubFrom(MatchEnd, Repl, t, i + 1)
           ELSE Repl(t, i, j) \o SubFrom(MatchEnd, Repl, t, j)

ReSub(MatchEnd(_, _), Repl(_, _, _), t) == SubFrom(MatchEnd, Repl, t, 1)

\* len(re.findall(pattern, t)): the number of non-overlapping matches
RECURSIVE CountFrom(_, _, _)
CountFrom(MatchEnd(_, _), t, i) ==
  IF i > Len(t) THEN 0
  ELSE LET j == MatchEnd(t, i)
       IN  IF j = 0 THEN CountFrom(MatchEnd, t, i + 1)
           ELSE 1 + CountFrom(MatchEnd, t, j)

ReCount(MatchEnd(_, _), t) == CountFrom(MatchEnd, t, 1)

(***************************************************************************)
(* The patterns of the normalizer, each as (match end, replacement).       *)
(***************************************************************************)

\* r'\s+' -> ' '
SpacesEnd(t, i) == IF IsSpace(t[i]) THEN SkipWhile(t, i, Whitespace) ELSE 0
SpacesRepl(t, i, j) == << " " >>
CollapseSpaces(t) == ReSub(SpacesEnd, SpacesRepl, t)

\* r'\b\d+\s*페이지?\b' -> ''   (re.IGNORECASE changes nothing for these
\* characters).  \d+ and \s* are greedy and giving a character back never
\* helps: what follows a digit run must be a space or PE.
PageNumberEnd(t, i) ==
  IF ~(IsDigit(t[i]) /\ WordBoundary(t, i)) THEN 0
  ELSE LET s == SkipWhile(t, SkipWhile(t, i, Digits), Whitespace)
       IN  IF s + 1 <= Len(t) /\ t[s] = "PE" /\ t[s + 1] = "I"
           THEN IF s + 2 <= Len(t) /\ t[s + 2] = "JI" /\ WordBoundary(t, s + 3)
                THEN s + 3
                ELSE IF WordBoundary(t, s + 2) THEN s + 2 ELSE 0
           ELSE 0
PageNumberRepl(t, i, j) == << >>
RemovePageNumbers(t) == ReSub(PageNumberEnd, PageNumberRepl, t)

\* r'([가-힣])\s+([가-힣])' -> r'\1\2'
HangulGapEnd(t, i) ==
  IF IsHangul(t[i]) /\ i + 1 <= Len(t) /\ IsSpace(t[i + 1])
  THEN LET s == SkipWhile(t, i + 1, Whitespace)
       IN  IF s <= Len(t) /\ IsHangul(t[s]) THEN s + 1 ELSE 0
  ELSE 0
HangulGapRepl(t, i, j) == << t[i], t[j - 1] >>
JoinHangul(t) == ReSub(HangulGapEnd, HangulGapRepl, t)

\* r'\(\d{2}\.\d{2}\.\d{2}\)' at position k: the position after it, or 0
DateEnd(t, k) ==
  IF /\ k + 9 <= Len(t)
     /\ t[k] = "(" /\ t[k + 9] = ")"
     /\ t[k + 3] = "." /\ t[k + 6] = "."
     /\ \A d \in {1, 2, 4, 5, 7, 8} : IsDigit(t[k + d])
  THEN k + 10 ELSE 0

\* r'([가-힣]+)\s*\((\d{2}\.\d{2}\.\d{2})\)' -> r'\1 (\2)'
NameDateEnd(t, i) ==
  IF IsHangul(t[i])
  THEN DateEnd(t, SkipWhile(t, SkipWhile(t, i, Hangul), Whitespace))
  ELSE 0
\* a replacement r'\1(\2)' that drops the space
NameDateReplNoSpace(t, i, j) ==
  Slice(t, i, SkipWhile(t, i, Hangul)) \o Slice(t, j - 10, j)

NameDateRepl(t, i, j) ==
  Slice(t, i, SkipWhile(t, i, Hangul)) \o << " " >> \o Slice(t, j - 10, j)
SpaceBeforeDate(t) == ReSub(NameDateEnd, NameDateRepl, t)

\* r'([<surnames>])\s*([가-힣]{1,3})' -> r'\1\2'
SurnameEnd(t, i) ==
  IF t[i] \in Surnames
  THEN LET s == SkipWhile(t, i + 1, Whitespace)
           e == SkipWhile(t, s, Hangul)
       IN  IF e = s THEN 0 ELSE IF e > s + 3 THEN s + 3 ELSE e
  ELSE 0
SurnameRepl(t, i, j) ==
  << t[i] >> \o Slice(t, SkipWhile(t, i + 1, Whitespace), j)
JoinSurname(t) == ReSub(SurnameEnd, SurnameRepl, t)

\* name_corrections, in the dict's insertion order: r'<a>\s*<b>' -> '<a><b>'
name_corrections ==
  << << "I", "REUM" >>, << "SAENG", "NYEON" >>, << "WOL", "IL" >>,
     << "YEON", "RAK" >>, << "I", "ME" >>, << "GAE", "BAL" >>,
     << "I", "RYEOK" >>, << "JA", "GI" >>, << "SO", "GAE" >>,
     << "GYEONG", "RYEOK" >>, << "HAK", "RYEOK" >>, << "GI", "SUL" >> >>

CorrectTerm(t, a, b) ==
  LET TermEnd(u, i) ==
        IF u[i] = a
        THEN LET s == SkipWhile(u, i + 1, Whitespace)
             IN  IF s <= Len(u) /\ u[s] = b THEN s + 1 ELSE 0
        ELSE 0
      TermRepl(u, i, j) == << a, b >>
  IN  ReSub(TermEnd, TermRepl, t)

\* for wrong_pattern, correct_text in name_corrections.items(): re.sub(...)
RECURSIVE ApplyCorrections(_, _)
ApplyCorrections(t, k) ==
  IF k > Len(name_corrections) THEN t
  ELSE ApplyCorrections(
         CorrectTerm(t, name_corrections[k][1], name_corrections[k][2]), k + 1)

(***************************************************************************)
(* PDFProcessor._clean_text and PDFProcessor._clean_text_fast.             *)
(***************************************************************************)

_clean_text(text) ==
  IF Strip(text) = << >> THEN << >>
  ELSE Strip(CollapseSpaces(ApplyCorrections(JoinSurname(SpaceBeforeDate(
         JoinHangul(RemovePageNumbers(CollapseSpaces(text))))), 1)))

\* the same rules with the correction table applied before the surname rule
_clean_text_fast(text) ==
  IF Strip(text) = << >> THEN << >>
  ELSE Strip(CollapseSpaces(JoinSurname(ApplyCorrections(SpaceBeforeDate(
         JoinHangul(RemovePageNumbers(CollapseSpaces(text)))), 1))))

(***************************************************************************)
(* PDFProcessor._evaluate_text_quality_fast.  A score is the exact         *)
(* fraction num/den with den > 0.                                          *)
(***************************************************************************)

Count(t, S) == Cardinality({ k \in 1..Len(t) : t[k] \in S })

\* name_patterns[0]: r'[<surnames>][가-힣]{1,3}\s*\(\d{2}\.\d{2}\.\d{2}\)'.
\* The given name backtracks from 3 syllables to 1, but '\s*\(' can only
\* follow the end of the Hangul run, so the run must be 1 to 3 long.
NameWithDateEnd(t, i) ==
  IF t[i] \in Surnames
  THEN LET e == SkipWhile(t, i + 1, Hangul)
       IN  IF e - (i + 1) \in 1..3
           THEN DateEnd(t, SkipWhile(t, e, Whitespace))
           ELSE 0
  ELSE 0

\* name_patterns[1]: r'[<surnames>][가-힣]{1,3}'
NameEnd(t, i) ==
  IF t[i] \in Surnames
  THEN LET e == SkipWhile(t, i + 1, Hangul)
       IN  IF e = i + 1 THEN 0 ELSE IF e > i + 4 THEN i + 4 ELSE e
  ELSE 0

\* the sum over name_patterns of len(re.findall(pattern, text))
NameMatches(t) == ReCount(NameWithDateEnd, t) + ReCount(NameEnd, t)

\* len(re.findall(r'[^\w\s가-힣]', text))
SpecialChars(t) ==
  Cardinality({ k \in 1..Len(t) : ~IsWord(t[k]) /\ ~IsSpace(t[k]) })

Max(a, b) == IF a >= b THEN a ELSE b
Min(a, b) == IF a <= b THEN a ELSE b

Zero == [num |-> 0, den |-> 1]

\* final_score = basic_score * 0.6 + name_score * 0.3 + special_score * 0.1
\* over the common denominator 100 * total_chars, with
\* name_score = 0.2 * matches and special_score = max(0, 1 - 3 * ratio)
FinalScore(t) ==
  LET total_chars == Len(t) - Count(t, {" "})
      letters == Count(t, Hangul) + Count(t, Latin)
  IN  [num |-> 60 * letters + 6 * NameMatches(t) * total_chars
                 + 10 * Max(0, total_chars - 3 * SpecialChars(t)),
       den |-> 100 * total_chars]

\* a scorer that returns final_score without min(final_score, 1.0)
EvaluateUncapped(text) ==
  IF Strip(text) = << >> THEN Zero
  ELSE IF Len(text) - Count(text, {" "}) = 0 THEN Zero
  ELSE FinalScore(text)

_evaluate_text_quality_fast(text) ==
  IF Strip(text) = << >> THEN Zero
  ELSE IF Len(text) - Count(text, {" "}) = 0 THEN Zero
  ELSE LET f == FinalScore(text)
       IN  [num |-> Min(f.num, f.den), den |-> f.den]

\* comparisons of scores
Less(a, b) == a.num * b.den < b.num * a.den
SameScore(a, b) == a.num * b.den = b.num * a.den

\* the low-confidence threshold 0.3 of the selector
Threshold == [num |-> 3, den |-> 10]

(***************************************************************************)
(* PDFProcessor._split_into_sentences_with_names.                          *)
(***************************************************************************)

\* re.findall(pattern, t) for a pattern without groups: the matched texts
RECURSIVE FindFrom(_, _, _)
FindFrom(MatchEnd(_, _), t, i) ==
  IF i > Len(t) THEN << >>
  ELSE LET j == MatchEnd(t, i)
       IN  IF j = 0 THEN FindFrom(MatchEnd, t, i + 1)
           ELSE << Slice(t, i, j) >> \o FindFrom(MatchEnd, t, j)

ReFindAll(MatchEnd(_, _), t) == FindFrom(MatchEnd, t, 1)

\* name_patterns[2]: r'[가-힣]{2,4}\s*\(\d{2}\.\d{2}\.\d{2}\)'
HangulDateEnd(t, i) ==
  IF IsHangul(t[i])
  THEN LET e == SkipWhile(t, i, Hangul)
       IN  IF e - i \in 2..4 THEN DateEnd(t, SkipWhile(t, e, Whitespace))
           ELSE 0
  ELSE 0

\* [.!?\n]
SentenceEnd == { ".", "!", "?", "\n" }

\* re.split(r'[.!?\n]+', t): the spans between delimiter runs
RECURSIVE SplitFrom(_, _, _)
SplitFrom(t, i, start) ==
  IF i > Len(t) THEN << Slice(t, start, i) >>
  ELSE IF t[i] \in SentenceEnd
       THEN LET e == SkipWhile(t, i, SentenceEnd)
            IN  << Slice(t, start, i) >> \o SplitFrom(t, e, e)
       ELSE SplitFrom(t, i + 1, start)

ReSplit(t) == SplitFrom(t, 1, 1)

InSeq(x, q) == \E k \in 1..Len(q) : q[k] = x

\* a list built without looking at what it already holds
AppendAll(acc, q) == acc \o q

\* 'if x not in seen: all_sentences.append(x); seen.add(x)' over q
RECURSIVE AppendUnseen(_, _)
AppendUnseen(acc, q) ==
  IF q = << >> THEN acc
  ELSE AppendUnseen(IF InSeq(Head(q), acc) THEN acc ELSE Append(acc, Head(q)),
                    Tail(q))

\* sentence.strip() of every span, kept when longer than 3 characters
RECURSIVE CleanedSentences(_)
CleanedSentences(q) ==
  IF q = << >> THEN << >>
  ELSE LET sentence == Strip(Head(q))
       IN  (IF Len(sentence) > 3 THEN << sentence >> ELSE << >>)
             \o CleanedSentences(Tail(q))

NameSentences(text) ==
  ReFindAll(NameWithDateEnd, text) \o ReFindAll(NameEnd, text)
    \o ReFindAll(HangulDateEnd, text)

_split_into_sentences_with_names(text) ==
  AppendUnseen(AppendUnseen(<< >>, NameSentences(text)),
               CleanedSentences(ReSplit(text)))

(***************************************************************************)
(* PDFProcessor.chunk_text.  The loop state is the record                  *)
(* [chunks, current_chunk, current_tokens, chunk_id].                      *)
(***************************************************************************)

\* f"chunk_{chunk_id}"
ChunkName(chunk_id) == << "chunk_", chunk_id >>

ChunkStart ==
  [chunks |-> << >>, current_chunk |-> << >>, current_tokens |-> 0,
   chunk_id |-> 0]

\* a chunker that tests the budget before adding the unit
FitsBeforeAdding(current_tokens, sentence_tokens, size) ==
  current_tokens <= size

\* a chunker that admits a unit only while the total stays below the budget
FitsStrictly(current_tokens, sentence_tokens, size) ==
  current_tokens + sentence_tokens < size

\* current_tokens + sentence_tokens <= self.chunk_size
Fits(current_tokens, sentence_tokens, size) ==
  current_tokens + sentence_tokens <= size

\* a chunker that counts a chunk id even when it closes an empty chunk
CloseChunkAlwaysCounting(st) ==
  IF Strip(st.current_chunk) # << >>
  THEN [st EXCEPT
          !.chunks = Append(@, [chunk_id |-> ChunkName(st.chunk_id),
                                text |-> Strip(st.current_chunk),
                                token_count |-> st.current_tokens]),
          !.chunk_id = @ + 1]
  ELSE [st EXCEPT !.chunk_id = @ + 1]

\* 'if current_chunk.strip(): chunks.append({...}); chunk_id += 1'
CloseChunk(st) ==
  IF Strip(st.current_chunk) # << >>
  THEN [st EXCEPT
          !.chunks = Append(@, [chunk_id |-> ChunkName(st.chunk_id),
                                text |-> Strip(st.current_chunk),
                                token_count |-> st.current_tokens]),
          !.chunk_id = @ + 1]
  ELSE st

\* a loop that closes the full chunk and starts the next one empty,
\* leaving out the unit that did not fit
ChunkLoopBodyDropping(st, sentence, sentence_tokens, size) ==
  IF Fits(st.current_tokens, sentence_tokens, size)
  THEN [st EXCEPT !.current_chunk = @ \o sentence \o << " " >>,
                  !.current_tokens = @ + sentence_tokens]
  ELSE [CloseChunk(st) EXCEPT !.current_chunk = << >>,
                              !.current_tokens = 0]

\* one iteration of 'for sentence in sentences'
ChunkLoopBody(st, sentence, sentence_tokens, size) ==
  IF Fits(st.current_tokens, sentence_tokens, size)
  THEN [st EXCEPT !.current_chunk = @ \o sentence \o << " " >>,
                  !.current_tokens = @ + sentence_tokens]
  ELSE [CloseChunk(st) EXCEPT !.current_chunk = sentence \o << " " >>,
                              !.current_tokens = sentence_tokens]

\* the code after the loop: the last chunk, then 'return chunks'
ChunkReturn(st) == CloseChunk(st).chunks

\* len(self.tokenizer.encode(sentence)) of the external tokenizer, stood in
\* for by one token per character where a whole text is chunked
TokenCount(sentence) == Len(sentence)

RECURSIVE ChunkLoop(_, _, _)
ChunkLoop(st, units, size) ==
  IF units = << >> THEN st
  ELSE ChunkLoop(ChunkLoopBody(st, Head(units), TokenCount(Head(units)), size),
                 Tail(units), size)

chunk_text(text, size) ==
  ChunkReturn(ChunkLoop(ChunkStart, _split_into_sentences_with_names(text),
                        size))

(***************************************************************************)
(* Bounded sets of texts.                                                  *)
(***************************************************************************)

RECURSIVE Flatten(_)
Flatten(q) == IF q = << >> THEN << >> ELSE Head(q) \o Flatten(Tail(q))

\* the texts made of at most n pieces of S
Texts(S, n) == { Flatten(q) : q \in UNION { [1..k -> S] : k \in 0..n } }

Date == << "(", "9", "0", ".", "0", "1", ".", "0", "1", ")" >>

\* "이 름 : 김철수 (90.01.01)"
Scenario1 ==
  << "I", " ", "REUM", " ", ":", " ", "GIM", "CHEOL", "SU", " " >> \o Date

MaxNormPieces == 5
NormPieces ==
  { << " " >>, << "I" >>, << "REUM" >>, Date, << "1" >>, << "PE", "I", "JI" >> }
NormInputs == Texts(NormPieces, MaxNormPieces) \cup { Scenario1 }

\* six names: 0.6 + 0.3 * 1.2 + 0.1 exceeds 1 before the cap
SixNames ==
  Flatten([k \in 1..6 |-> << "GIM", "CHEOL", " " >>])

MaxScorePieces == 4
ScorePieces ==
  { << "GIM", "CHEOL" >>, << " " >>, << "\n" >>, << "." >>, << "1" >>,
    << "a" >>, Date }
ScoreInputs == Texts(ScorePieces, MaxScorePieces) \cup { SixNames }

NoText == << "none" >>

(***************************************************************************)
(* The normalizer run on a text and then on its own output.                *)
(***************************************************************************)

NormalizerIdle ==
  n_pc = "idle" /\ n_input = << >> /\ n_first = NoText /\ n_second = NoText

NormalizerInit ==
  n_pc = "start" /\ n_input \in NormInputs /\ n_first = NoText
    /\ n_second = NoText

Normalize ==
  /\ n_pc = "start"
  /\ n_first' = _clean_text(n_input)
  /\ n_pc' = "once"
  /\ UNCHANGED << n_input, n_second, scorerVars, chunkerVars, pipelineVars,
                  restVars >>

NormalizeAgain ==
  /\ n_pc = "once"
  /\ n_second' = _clean_text(n_first)
  /\ n_pc' = "twice"
  /\ UNCHANGED << n_input, n_first, scorerVars, chunkerVars, pipelineVars,
                  restVars >>

(***************************************************************************)
(* The quality scorer run on a text.                                       *)
(***************************************************************************)

ScorerIdle == s_pc = "idle" /\ s_text = << >> /\ s_score = Zero

ScorerInit == s_pc = "start" /\ s_text \in ScoreInputs /\ s_score = Zero

Evaluate ==
  /\ s_pc = "start"
  /\ s_score' = _evaluate_text_quality_fast(s_text)
  /\ s_pc' = "scored"
  /\ UNCHANGED << s_text, normalizerVars, chunkerVars, pipelineVars,
                  restVars >>

(***************************************************************************)
(* chunk_text, one loop iteration per step.  The units are distinct        *)
(* texts (the splitter removes duplicates); each has the token count the   *)
(* tokenizer gives it, at least 1 for a non-empty text.                    *)
(***************************************************************************)

\* def __init__(self, chunk_size: int = 500, ...)
DefaultChunkSize == 500

MaxUnits == 4
MaxTokens == 3
MaxBudget == 3

DigitOf == << "1", "2", "3", "4", "5", "6", "7", "8", "9" >>
Unit(k) == << "a", "b", "c", DigitOf[k] >>

ChunkerIdle ==
  /\ c_pc = "idle" /\ sentences = << >> /\ tokens = << >>
  /\ chunk_size = DefaultChunkSize
  /\ next_sentence = 0 /\ loop = ChunkStart /\ returned = << >>

ChunkerInit ==
  /\ c_pc = "loop"
  /\ \E n \in 0..MaxUnits :
       /\ sentences = [k \in 1..n |-> Unit(k)]
       /\ tokens \in [1..n -> 1..MaxTokens]
  /\ chunk_size \in 1..MaxBudget
  /\ next_sentence = 1
  /\ loop = ChunkStart
  /\ returned = << >>

ChunkSentence ==
  /\ c_pc = "loop"
  /\ next_sentence <= Len(sentences)
  /\ loop' = ChunkLoopBody(loop, sentences[next_sentence],
                           tokens[next_sentence], chunk_size)
  /\ next_sentence' = next_sentence + 1
  /\ UNCHANGED << c_pc, sentences, tokens, chunk_size, returned >>
  /\ UNCHANGED << normalizerVars, scorerVars, pipelineVars, restVars >>

ChunkDone ==
  /\ c_pc = "loop"
  /\ next_sentence > Len(sentences)
  /\ returned' = ChunkReturn(loop)
  /\ c_pc' = "returned"
  /\ UNCHANGED << sentences, tokens, chunk_size, next_sentence, loop >>
  /\ UNCHANGED << normalizerVars, scorerVars, pipelineVars, restVars >>

(***************************************************************************)
(* _split_into_sentences_with_names applied to a text.                     *)
(***************************************************************************)

MaxSplitPieces == 4
SplitPieces ==
  { << "GIM", "CHEOL" >>, Date, << "a", "b", "c", "d" >>, << "a", "b" >>,
    << "." >>, << "\n" >>, << " " >> }
SplitInputs == Texts(SplitPieces, MaxSplitPieces)

SplitterIdle == p_pc = "idle" /\ p_text = << >> /\ p_units = << >>

SplitterInit == p_pc = "start" /\ p_text \in SplitInputs /\ p_units = << >>

Split ==
  /\ p_pc = "start"
  /\ p_units' = _split_into_sentences_with_names(p_text)
  /\ p_pc' = "returned"
  /\ UNCHANGED << p_text, coreVars, serviceVars >>

(***************************************************************************)
(* The extraction orchestrator: PDFProcessor.process_pdf over              *)
(* extract_text_from_pdf, _extract_text_normally, _extract_text_with_ocr   *)
(* and the selector _extract_text_with_enhanced_ocr.                       *)
(***************************************************************************)

MaxPages == 2

\* an exception raised by pytesseract.image_to_string
Throw == << "throw" >>

\* what recognition can return for a page image: nothing, punctuation only
\* (score 0), texts scoring 0.2 and 0.3, and a name the normalizer joins
OcrTexts ==
  { << >>, << ".", "." >>, << "a", ".", "." >>, << "a", "1", "1" >>,
    << "GIM", " ", "CHEOL", "SU" >> }
OcrOutcomes == OcrTexts \cup { Throw }

\* what page.extract_text() can return for a page's text layer
LayerTexts ==
  { << >>, << "a", "b", ".", "c" >>, << "I", " ", "REUM" >>,
    << "GIM", "CHEOL", "SU" >> \o Date }

NoImage == [page |-> 0, passes |-> 0]
NoChunks == << "none" >>

\* a percent passed to the callback, as the exact fraction num/den
Percent(num, den) == [num |-> num, den |-> den]

\* a page scaled by a factor of 100 instead of 10
PagePercentScaledWrong(k, n) == Percent(40 * n + 100 * k, n)

\* 40 + (i / len(images)) * 10
PagePercent(k, n) == Percent(40 * n + 10 * k, n)

\* 'if progress_callback: progress_callback(percent, ...)'
Notify(percent) == IF has_callback THEN Append(progress, percent) ELSE progress

\* _preprocess_image and _preprocess_image_fast: the processed bitmap, or
\* the input unchanged when the processing raised
Preprocess(img, ok) == IF ok THEN [img EXCEPT !.passes = @ + 1] ELSE img

\* a text-layer loop that puts the newer page first
AppendLayerPageReversed(t, page_text) ==
  IF page_text # << >> THEN page_text \o << "\n" >> \o t ELSE t

\* 'if page_text: text += page_text + "\n"'
AppendLayerPage(t, page_text) ==
  IF page_text # << >> THEN t \o page_text \o << "\n" >> ELSE t

\* an OCR loop that puts the newer page first
AppendOcrPageReversed(t, page_text) == page_text \o << "\n" >> \o t

\* 'text += page_text + "\n"'
AppendOcrPage(t, page_text) == t \o page_text \o << "\n" >>

\* a retry condition that also retries at exactly 0.3
LowConfidenceInclusive(c) == ~Less(Threshold, c)

\* confidence < 0.3
LowConfidence(c) == Less(c, Threshold)

\* an emptiness test that never fires
NoExtractableTextNever(t) == FALSE

\* not text.strip()
NoExtractableText(t) == Strip(t) = << >>

\* the message raised for an empty text, by the flags of lines 106-111
EmptyTextError ==
  IF ~OCR_AVAILABLE THEN "no_text_install_tesseract"
  ELSE IF ~(PYMUPDF_AVAILABLE \/ PDF2IMAGE_AVAILABLE)
       THEN "no_text_install_pymupdf"
       ELSE "no_text"

PipelineIdle ==
  /\ OCR_AVAILABLE = FALSE /\ PYMUPDF_AVAILABLE = FALSE
  /\ PDF2IMAGE_AVAILABLE = FALSE /\ use_ocr = FALSE
  /\ use_ocr_arg = FALSE /\ tesseract_installed = FALSE
  /\ n_pages = 0 /\ has_callback = FALSE /\ abandoned = FALSE
  /\ pc = "idle" /\ page_i = 0 /\ images = << >> /\ doc_text = << >>
  /\ sel_image = NoImage /\ processed_image = NoImage
  /\ sel_text = << >> /\ confidence = Zero
  /\ attempts = << >> /\ chosen = "none" /\ page_texts = << >>
  /\ progress = << >>
  /\ render_calls = 0 /\ preprocess_calls = 0 /\ ocr_calls = 0
  /\ page_order = << >>
  /\ status = "idle" /\ error = "" /\ extracted = NoText /\ chunks = NoChunks

\* the state after the imports and PDFProcessor(chunk_size, use_ocr), at
\* the call of process_pdf(pdf_path, progress_callback)
PipelineInit ==
  /\ OCR_AVAILABLE \in BOOLEAN
  /\ PYMUPDF_AVAILABLE \in BOOLEAN
  /\ PDF2IMAGE_AVAILABLE \in BOOLEAN
  /\ ~OCR_AVAILABLE => (~PYMUPDF_AVAILABLE /\ ~PDF2IMAGE_AVAILABLE)
  /\ use_ocr_arg \in BOOLEAN
  /\ use_ocr = (use_ocr_arg /\ OCR_AVAILABLE
                  /\ (PYMUPDF_AVAILABLE \/ PDF2IMAGE_AVAILABLE))
  /\ tesseract_installed \in BOOLEAN
  /\ n_pages \in 0..MaxPages
  /\ has_callback \in BOOLEAN
  /\ abandoned = FALSE
  /\ pc = "extract" /\ page_i = 0 /\ images = << >> /\ doc_text = << >>
  /\ sel_image = NoImage /\ processed_image = NoImage
  /\ sel_text = << >> /\ confidence = Zero
  /\ attempts = << >> /\ chosen = "none" /\ page_texts = << >>
  /\ progress = << >>
  /\ render_calls = 0 /\ preprocess_calls = 0 /\ ocr_calls = 0
  /\ page_order = << >>
  /\ status = "running" /\ error = "" /\ extracted = NoText
  /\ chunks = NoChunks

otherVars == << normalizerVars, scorerVars, chunkerVars, restVars >>

\* extract_text_from_pdf, lines 86-92: the OCR path whenever use_ocr
Extract ==
  /\ pc = "extract"
  /\ pc' = IF use_ocr THEN "ocr_setup" ELSE "layer"
  /\ UNCHANGED << environmentVars, page_i, images, doc_text, selectorVars, historyVars,
                  outcomeVars, otherVars >>

\* _extract_text_normally: one page of 'for page in reader.pages'
LayerPage ==
  /\ pc = "layer"
  /\ page_i < n_pages
  /\ \E page_text \in LayerTexts :
       /\ doc_text' = AppendLayerPage(doc_text, page_text)
       /\ page_texts' = Append(page_texts, page_text)
  /\ page_order' = Append(page_order, page_i + 1)
  /\ page_i' = page_i + 1
  /\ UNCHANGED << environmentVars, pc, images, selectorVars, attempts, chosen,
                  progress, render_calls, preprocess_calls, ocr_calls,
                  outcomeVars, otherVars >>

\* _extract_text_normally: 'return text'
LayerReturn ==
  /\ pc = "layer"
  /\ page_i >= n_pages
  /\ pc' = "clean"
  /\ UNCHANGED << environmentVars, page_i, images, doc_text, selectorVars, historyVars,
                  outcomeVars, otherVars >>

\* _extract_text_with_ocr, lines 133-148: the availability checks, the
\* Tesseract probe and the rendering of every page; a failure of either is
\* re-raised as the OCR error of line 166
OcrSetup ==
  /\ pc = "ocr_setup"
  /\ \E rendered \in BOOLEAN :
       LET available ==
             OCR_AVAILABLE /\ (PYMUPDF_AVAILABLE \/ PDF2IMAGE_AVAILABLE)
           ok == available /\ tesseract_installed /\ rendered
       IN  /\ render_calls' =
                IF available /\ tesseract_installed THEN render_calls + 1
                ELSE render_calls
           /\ images' = IF ok THEN [k \in 1..n_pages |-> [page |-> k, passes |-> 0]]
                        ELSE images
           /\ pc' = IF ok THEN "ocr_loop" ELSE "done"
           /\ status' = IF ok THEN status ELSE "failed"
           /\ error' = IF ok THEN error
                       ELSE IF available THEN "ocr_error"
                       ELSE "ocr_unavailable"
  /\ UNCHANGED << environmentVars, page_i, doc_text, selectorVars, attempts, chosen,
                  page_texts, page_order, progress, preprocess_calls, ocr_calls, extracted,
                  chunks, otherVars >>

\* _extract_text_with_ocr, lines 150-160: the callback, the preprocessing
\* of the page image, and the call of the selector with the result
OcrPage ==
  /\ pc = "ocr_loop"
  /\ page_i < Len(images)
  /\ progress' = Notify(PagePercent(page_i, Len(images)))
  /\ \E ok \in BOOLEAN : sel_image' = Preprocess(images[page_i + 1], ok)
  /\ preprocess_calls' = preprocess_calls + 1
  /\ attempts' = << >>
  /\ chosen' = "none"
  /\ pc' = "selector"
  /\ UNCHANGED << environmentVars, page_i, images, doc_text, processed_image, sel_text,
                  confidence, page_texts, page_order, render_calls, ocr_calls, outcomeVars,
                  otherVars >>

\* _extract_text_with_ocr: 'return text'
OcrReturn ==
  /\ pc = "ocr_loop"
  /\ page_i >= Len(images)
  /\ pc' = "clean"
  /\ UNCHANGED << environmentVars, page_i, images, doc_text, selectorVars, historyVars,
                  outcomeVars, otherVars >>

\* the selector, lines 180-195 and 215-217: its own preprocessing, the
\* attempt on the image it was given and that attempt's score; an exception
\* ends the selector with the empty text
SelectorFirst ==
  /\ pc = "selector"
  /\ \E ok \in BOOLEAN : processed_image' = Preprocess(sel_image, ok)
  /\ preprocess_calls' = preprocess_calls + 1
  /\ ocr_calls' = ocr_calls + 1
  /\ \E out \in OcrOutcomes :
       /\ attempts' = << [source |-> "original", image |-> sel_image, out |-> out] >>
       /\ IF out = Throw
          THEN /\ sel_text' = << >>
               /\ UNCHANGED << confidence, chosen >>
               /\ pc' = "page_done"
          ELSE /\ sel_text' = out
               /\ confidence' = _evaluate_text_quality_fast(out)
               /\ IF LowConfidence(_evaluate_text_quality_fast(out))
                  THEN pc' = "retry" /\ UNCHANGED chosen
                  ELSE pc' = "selector_clean" /\ chosen' = "original"
  /\ UNCHANGED << environmentVars, page_i, images, doc_text, sel_image, page_texts, page_order,
                  progress, render_calls, outcomeVars, otherVars >>

\* the selector, lines 197-206 and 215-217: the attempt on the preprocessed
\* image and the choice of the better candidate
SelectorRetry ==
  /\ pc = "retry"
  /\ ocr_calls' = ocr_calls + 1
  /\ \E out \in OcrOutcomes :
       /\ attempts' = Append(attempts, [source |-> "preprocessed",
                                        image |-> processed_image, out |-> out])
       /\ IF out = Throw
          THEN /\ sel_text' = << >>
               /\ UNCHANGED << confidence, chosen >>
               /\ pc' = "page_done"
          ELSE LET processed_confidence == _evaluate_text_quality_fast(out)
               IN  /\ IF Less(confidence, processed_confidence)
                      THEN /\ sel_text' = out
                           /\ confidence' = processed_confidence
                           /\ chosen' = "preprocessed"
                      ELSE /\ UNCHANGED << sel_text, confidence >>
                           /\ chosen' = "original"
                   /\ pc' = "selector_clean"
  /\ UNCHANGED << environmentVars, page_i, images, doc_text, sel_image, processed_image,
                  page_texts, page_order, progress, render_calls, preprocess_calls,
                  outcomeVars, otherVars >>

\* the selector, lines 211-213: text = self._clean_text_fast(text); return
SelectorReturn ==
  /\ pc = "selector_clean"
  /\ sel_text' = _clean_text_fast(sel_text)
  /\ pc' = "page_done"
  /\ UNCHANGED << environmentVars, page_i, images, doc_text, sel_image, processed_image,
                  confidence, historyVars, outcomeVars, otherVars >>

\* _extract_text_with_ocr, line 161: text += page_text + "\n"
PageDone ==
  /\ pc = "page_done"
  /\ doc_text' = AppendOcrPage(doc_text, sel_text)
  /\ page_texts' = Append(page_texts, sel_text)
  /\ page_order' = Append(page_order, sel_image.page)
  /\ page_i' = page_i + 1
  /\ pc' = "ocr_loop"
  /\ UNCHANGED << environmentVars, images, selectorVars, attempts, chosen,
                  progress, render_calls, preprocess_calls, ocr_calls,
                  outcomeVars, otherVars >>

\* the caller stops waiting for the document while a page is being
\* recognised (the client of upload_pdf disconnects during the await of
\* api.py line 182); nothing in _extract_text_with_ocr reads it
Abandon ==
  /\ pc \in { "selector", "retry", "selector_clean", "page_done" }
  /\ ~abandoned
  /\ abandoned' = TRUE
  /\ UNCHANGED << OCR_AVAILABLE, PYMUPDF_AVAILABLE, PDF2IMAGE_AVAILABLE,
                  use_ocr, use_ocr_arg, tesseract_installed, n_pages,
                  has_callback, pc, page_i, images, doc_text, selectorVars,
                  historyVars, outcomeVars, otherVars >>

\* extract_text_from_pdf, lines 96-113: normalize, raise on an empty text,
\* else return the text to process_pdf
Clean ==
  /\ pc = "clean"
  /\ LET cleaned == _clean_text(doc_text)
     IN  IF NoExtractableText(cleaned)
         THEN /\ status' = "failed"
              /\ error' = EmptyTextError
              /\ pc' = "done"
              /\ UNCHANGED extracted
         ELSE /\ extracted' = cleaned
              /\ pc' = "notify_chunking"
              /\ UNCHANGED << status, error >>
  /\ UNCHANGED << environmentVars, page_i, images, doc_text, selectorVars, historyVars,
                  chunks, otherVars >>

\* process_pdf, lines 619-620: progress_callback(50, ...)
NotifyChunking ==
  /\ pc = "notify_chunking"
  /\ progress' = Notify(Percent(50, 1))
  /\ pc' = "chunk"
  /\ UNCHANGED << environmentVars, page_i, images, doc_text, selectorVars, attempts,
                  chosen, page_texts, page_order, render_calls, preprocess_calls, ocr_calls,
                  outcomeVars, otherVars >>

\* process_pdf, line 623: chunks = self.chunk_text(text)
Chunk ==
  /\ pc = "chunk"
  /\ chunks' = chunk_text(extracted, chunk_size)
  /\ pc' = "notify_chunks"
  /\ UNCHANGED << environmentVars, page_i, images, doc_text, selectorVars, historyVars,
                  status, error, extracted, otherVars >>

\* process_pdf, lines 625-628: progress_callback(60, ...); return chunks
NotifyChunks ==
  /\ pc = "notify_chunks"
  /\ progress' = Notify(Percent(60, 1))
  /\ status' = "done"
  /\ pc' = "done"
  /\ UNCHANGED << environmentVars, page_i, images, doc_text, selectorVars, attempts,
                  chosen, page_texts, page_order, render_calls, preprocess_calls, ocr_calls,
                  error, extracted, chunks, otherVars >>

(***************************************************************************)
(* LLMService.generate_answer_with_sources of llm_service.py: the primary  *)
(* provider (Gemini), the fallback provider (Llama 4) and the source list. *)
(***************************************************************************)

MaxChunks == 2

\* a key that a chunk dict does not have: reading it raises KeyError
Missing == << "missing" >>
KeyError == << "KeyError" >>

\* chunk["text"][:150] + "..." if len(chunk["text"]) > 150
SnippetLimit == 150
Ellipsis == << ".", ".", "." >>
Snippet(t) ==
  IF Len(t) > SnippetLimit
  THEN SubSeq(t, 1, SnippetLimit) \o Ellipsis
  ELSE t

\* _combine_chunks_optimized: max_length, and the least remaining space
\* into which a cut chunk is still put
max_length == 1500
MinRemainingSpace == 50

\* the texts of the retrieved chunks: a short one, one longer than a
\* snippet, one longer than max_length, and a chunk without the key
LongText == [k \in 1..(SnippetLimit + 1) |-> "a"]
HugeText == [k \in 1..(max_length + 1) |-> "a"]
ChunkTexts == { << "a", "b" >>, LongText, HugeText, Missing }

\* the lists of up to MaxChunks retrieved chunks
SimilarChunks ==
  UNION { [1..n -> [chunk_id : { ChunkName(0), Missing },
                    text : ChunkTexts]] : n \in 0..MaxChunks }

RECURSIVE CombineFrom(_, _, _)
CombineFrom(cs, k, combined_text) ==
  IF k > Len(cs) THEN combined_text
  ELSE LET this_text == cs[k].text  \* chunk_text = chunk["text"]
           remaining_space == max_length - Len(combined_text)
       IN  IF this_text = Missing THEN KeyError
           ELSE IF Len(combined_text) + Len(this_text) <= max_length
           THEN CombineFrom(cs, k + 1,
                            combined_text \o this_text \o << "\n", "\n" >>)
           ELSE IF remaining_space > MinRemainingSpace
           THEN combined_text \o SubSeq(this_text, 1, remaining_space)
                  \o Ellipsis
           ELSE combined_text

_combine_chunks_optimized(cs) ==
  LET combined_text == CombineFrom(cs, 1, << >>)
  IN  IF combined_text = KeyError THEN KeyError ELSE Strip(combined_text)

\* building the source list raises KeyError: a chunk lacks "text" or
\* "chunk_id"
SourcesRaise(cs) ==
  \E k \in 1..Len(cs) : cs[k].text = Missing \/ cs[k].chunk_id = Missing

\* the source list of lines 86-93
Sources(cs) ==
  [k \in 1..Len(cs) |->
     [chunk_id |-> cs[k].chunk_id, snippet |-> Snippet(cs[k].text)]]

\* what a provider call gives: an answer, or an exception
ProviderAnswers == { "answer 1", "answer 2" }
ProviderError == "raised"
ProviderOutcomes == ProviderAnswers \cup { ProviderError }

\* "죄송합니다. 답변을 생성하는 중에 오류가 발생했습니다."
Apology == "apology"
\* the values of model_used: "Gemini", "Llama 4 (폴백)", "오류"
Gemini == "Gemini"
Llama == "Llama 4 (fallback)"
ErrorMarker == "error"

NoAnswer == "none"

\* a service that falls back whether or not the fallback is enabled
FallbackAlways(enabled) == TRUE

\* 'if self.use_fallback'
FallbackEnabled(enabled) == enabled

\* the other state of the module
llmFrame == << coreVars, apiVars, storeVars, splitterVars >>

LLMIdle ==
  /\ g_pc = "idle" /\ use_fallback = FALSE /\ similar_chunks = << >>
  /\ provider_calls = << >> /\ answer = NoAnswer /\ model_used = NoAnswer
  /\ source = << >>

\* LLMService(use_fallback=...) at the call of
\* generate_answer_with_sources(question, similar_chunks)
LLMInit ==
  /\ g_pc = "start" /\ use_fallback \in BOOLEAN
  /\ similar_chunks \in SimilarChunks
  /\ provider_calls = << >> /\ answer = NoAnswer /\ model_used = NoAnswer
  /\ source = << >>

\* lines 49-54 and 101-107: the context and the prompt; a KeyError is
\* caught by the outer handler, which returns the apology
BuildPrompt ==
  /\ g_pc = "start"
  /\ IF _combine_chunks_optimized(similar_chunks) = KeyError
     THEN /\ answer' = Apology /\ model_used' = ErrorMarker
          /\ source' = << >> /\ g_pc' = "returned"
     ELSE /\ g_pc' = "primary" /\ UNCHANGED << answer, model_used, source >>
  /\ UNCHANGED << use_fallback, similar_chunks, provider_calls, llmFrame >>

\* lines 57-83: self.model.generate_content(prompt) and response.text
CallGemini ==
  /\ g_pc = "primary"
  /\ \E out \in ProviderOutcomes :
       /\ provider_calls' =
            Append(provider_calls, [provider |-> Gemini, out |-> out])
       /\ IF out # ProviderError
          THEN /\ answer' = out /\ model_used' = Gemini /\ g_pc' = "sources"
          ELSE IF FallbackEnabled(use_fallback)
          THEN g_pc' = "fallback" /\ UNCHANGED << answer, model_used >>
          ELSE /\ answer' = Apology /\ model_used' = ErrorMarker
               /\ g_pc' = "sources"
  /\ UNCHANGED << use_fallback, similar_chunks, source, llmFrame >>

\* lines 74-80: self._generate_with_llama(prompt)
CallLlama ==
  /\ g_pc = "fallback"
  /\ \E out \in ProviderOutcomes :
       /\ provider_calls' =
            Append(provider_calls, [provider |-> Llama, out |-> out])
       /\ IF out # ProviderError
          THEN answer' = out /\ model_used' = Llama
          ELSE answer' = Apology /\ model_used' = ErrorMarker
  /\ g_pc' = "sources"
  /\ UNCHANGED << use_fallback, similar_chunks, source, llmFrame >>

\* lines 86-107: the source list and the return; a KeyError is caught by
\* the outer handler, which returns the apology
BuildSources ==
  /\ g_pc = "sources"
  /\ IF SourcesRaise(similar_chunks)
     THEN /\ answer' = Apology /\ model_used' = ErrorMarker
          /\ source' = << >>
     ELSE /\ source' = Sources(similar_chunks)
          /\ UNCHANGED << answer, model_used >>
  /\ g_pc' = "returned"
  /\ UNCHANGED << use_fallback, similar_chunks, provider_calls, llmFrame >>

(***************************************************************************)
(* The upload endpoint of api.py.  The event loop is one thread of         *)
(* control: the coroutine of a request runs on it from one await to the    *)
(* next (loop_owner).  process_with_progress runs in a thread of its own   *)
(* (asyncio.to_thread), one per request.  Thread 0 is the event loop,      *)
(* thread r the worker of request r.                                       *)
(***************************************************************************)

MaxUploads == 2

Uploads == 1..MaxUploads
Threads == 0..MaxUploads

\* the uploaded file: a name without .pdf, a content over 100MB, or neither
Files == { "bad_extension", "too_big", "ok" }

\* processing_status = {"is_processing": False, "progress": 0, ...}
InitialStatus ==
  [is_processing |-> FALSE, progress |-> 0, current_step |-> "",
   total_pages |-> 0, current_page |-> 0]

\* the arguments of one block of writes; 'start' marks the block of lines
\* 98-102, which first sets is_processing
Update(percent, step, current_page, total_pages) ==
  [start |-> FALSE, progress |-> percent, step |-> step,
   current_page |-> current_page, total_pages |-> total_pages]
StartUpdate == [Update(0, "validating", 0, 0) EXCEPT !.start = TRUE]
NoUpdate == Update(0 - 1, "none", 0, 0)

\* a block of writes is entered with its first assignments (lines 98-99,
\* line 31) ...
BeginWrite(st, a) ==
  [st EXCEPT !.is_processing = IF a.start THEN TRUE ELSE @,
             !.progress = Max(0, Min(100, a.progress))]
\* ... and left with its last ones (lines 100-102, lines 32-34)
EndWrite(st, a) ==
  [st EXCEPT !.current_step = a.step,
             !.current_page = Max(0, a.current_page),
             !.total_pages = Max(0, a.total_pages)]

\* def process_pdf(self, pdf_path) of PDFQASystem takes one argument;
\* pdf_qa_system.process_pdf(temp_file_path, progress_callback) passes two
AcceptedArguments == 1
PassedArguments == 2

\* what the call of line 159 gives the worker: a result dict, or the
\* TypeError of a call with too many arguments
CallOutcomes ==
  IF PassedArguments = AcceptedArguments THEN { "success", "failure" }
  ELSE { "TypeError" }

\* the updates the worker makes after the call, lines 164-177
UpdatesAfter(outcome, total) ==
  IF outcome = "success"
  THEN << Update(90, "finishing", total, total),
          Update(100, "complete", total, total) >>
  ELSE IF outcome = "failure" THEN << Update(0, "failed", 0, 0) >>
  ELSE << Update(0, "error", 0, 0) >>

\* the response of upload_pdf by the worker's outcome, lines 184-216
ResponseAfter(outcome) == IF outcome = "success" THEN 200 ELSE 400

ApiIdle ==
  /\ processing_status = InitialStatus
  /\ u_pc = << >> /\ u_file = << >> /\ u_response = << >>
  /\ w_pc = << >> /\ w_todo = << >> /\ w_outcome = << >> /\ w_pages = << >>
  /\ loop_owner = 0 /\ pending = << >>

\* the state after the module is imported; the requests have been sent
ApiInit ==
  /\ processing_status = InitialStatus
  /\ u_pc = [r \in Uploads |-> "new"]
  /\ u_file \in [Uploads -> Files]
  /\ u_response = [r \in Uploads |-> 0]
  /\ w_pc = [r \in Uploads |-> "idle"]
  /\ w_todo = [r \in Uploads |-> << >>]
  /\ w_outcome = [r \in Uploads |-> "none"]
  /\ w_pages = [r \in Uploads |-> 0]
  /\ loop_owner = 0
  /\ pending = [t \in Threads |-> NoUpdate]

\* the other state of the module
apiFrame == << coreVars, llmVars, storeVars, splitterVars >>

\* upload_pdf, lines 94-99: the coroutine gets the event loop and enters
\* the block that resets the status
UploadBegin(r) ==
  /\ u_pc[r] = "new" /\ loop_owner = 0
  /\ loop_owner' = r
  /\ processing_status' = BeginWrite(processing_status, StartUpdate)
  /\ pending' = [pending EXCEPT ![0] = StartUpdate]
  /\ u_pc' = [u_pc EXCEPT ![r] = "validate"]
  /\ UNCHANGED << u_file, u_response, w_pc, w_todo, w_outcome, w_pages,
                  apiFrame >>

\* lines 100-111: the rest of the block and the extension check; a wrong
\* extension clears is_processing (lines 106, 203) and is answered 400,
\* else the coroutine awaits file.read()
UploadValidate(r) ==
  /\ u_pc[r] = "validate" /\ loop_owner = r
  /\ pending' = [pending EXCEPT ![0] = NoUpdate]
  /\ loop_owner' = 0
  /\ IF u_file[r] = "bad_extension"
     THEN /\ processing_status' =
               [EndWrite(processing_status, pending[0])
                  EXCEPT !.is_processing = FALSE]
          /\ u_response' = [u_response EXCEPT ![r] = 400]
          /\ u_pc' = [u_pc EXCEPT ![r] = "done"]
     ELSE /\ processing_status' = EndWrite(processing_status, pending[0])
          /\ u_pc' = [u_pc EXCEPT ![r] = "reading"]
          /\ UNCHANGED u_response
  /\ UNCHANGED << u_file, w_pc, w_todo, w_outcome, w_pages, apiFrame >>

\* lines 111-118: the content is read; too large a file clears
\* is_processing (lines 113, 203) and is answered 400, else
\* update_progress(10, ...) is entered
UploadRead(r) ==
  /\ u_pc[r] = "reading" /\ loop_owner = 0
  /\ IF u_file[r] = "too_big"
     THEN /\ processing_status' =
               [processing_status EXCEPT !.is_processing = FALSE]
          /\ u_response' = [u_response EXCEPT ![r] = 400]
          /\ u_pc' = [u_pc EXCEPT ![r] = "done"]
          /\ UNCHANGED << loop_owner, pending >>
     ELSE /\ loop_owner' = r
          /\ processing_status' =
               BeginWrite(processing_status, Update(10, "saving", 0, 0))
          /\ pending' = [pending EXCEPT ![0] = Update(10, "saving", 0, 0)]
          /\ u_pc' = [u_pc EXCEPT ![r] = "save"]
          /\ UNCHANGED u_response
  /\ UNCHANGED << u_file, w_pc, w_todo, w_outcome, w_pages, apiFrame >>

\* lines 118-128: update_progress(10, ...) is left, the temporary file is
\* written and update_progress(20, ...) is entered
UploadSave(r) ==
  /\ u_pc[r] = "save" /\ loop_owner = r
  /\ processing_status' =
       BeginWrite(EndWrite(processing_status, pending[0]),
                  Update(20, "analyzing", 0, 0))
  /\ pending' = [pending EXCEPT ![0] = Update(20, "analyzing", 0, 0)]
  /\ u_pc' = [u_pc EXCEPT ![r] = "analyze"]
  /\ UNCHANGED << u_file, u_response, w_pc, w_todo, w_outcome, w_pages,
                  loop_owner, apiFrame >>

\* lines 128-182: update_progress(20, ...) is left and the coroutine awaits
\* asyncio.to_thread(process_with_progress); the worker counts the pages
\* (lines 136-145) and has update_progress(30, ...) to make
UploadDispatch(r) ==
  /\ u_pc[r] = "analyze" /\ loop_owner = r
  /\ processing_status' = EndWrite(processing_status, pending[0])
  /\ pending' = [pending EXCEPT ![0] = NoUpdate]
  /\ loop_owner' = 0
  /\ u_pc' = [u_pc EXCEPT ![r] = "awaiting"]
  /\ w_pc' = [w_pc EXCEPT ![r] = "running"]
  /\ \E total \in 1..MaxPages :
       /\ w_pages' = [w_pages EXCEPT ![r] = total]
       /\ w_todo' = [w_todo EXCEPT ![r] = << Update(30, "pages", 0, total) >>]
  /\ UNCHANGED << u_file, u_response, w_outcome, apiFrame >>

\* update_progress in the worker, line 31: the block is entered
WorkerBeginUpdate(r) ==
  /\ w_pc[r] = "running" /\ w_todo[r] # << >> /\ pending[r] = NoUpdate
  /\ processing_status' = BeginWrite(processing_status, Head(w_todo[r]))
  /\ pending' = [pending EXCEPT ![r] = Head(w_todo[r])]
  /\ w_todo' = [w_todo EXCEPT ![r] = Tail(@)]
  /\ UNCHANGED << u_pc, u_file, u_response, w_pc, w_outcome, w_pages,
                  loop_owner, apiFrame >>

\* update_progress in the worker, lines 32-34: the block is left
WorkerEndUpdate(r) ==
  /\ w_pc[r] = "running" /\ pending[r] # NoUpdate
  /\ processing_status' = EndWrite(processing_status, pending[r])
  /\ pending' = [pending EXCEPT ![r] = NoUpdate]
  /\ UNCHANGED << u_pc, u_file, u_response, w_pc, w_todo, w_outcome,
                  w_pages, loop_owner, apiFrame >>

\* line 159: pdf_qa_system.process_pdf(temp_file_path, progress_callback),
\* and the updates that follow its outcome
WorkerCall(r) ==
  /\ w_pc[r] = "running" /\ w_todo[r] = << >> /\ pending[r] = NoUpdate
  /\ w_outcome[r] = "none"
  /\ \E outcome \in CallOutcomes :
       /\ w_outcome' = [w_outcome EXCEPT ![r] = outcome]
       /\ w_todo' = [w_todo EXCEPT ![r] = UpdatesAfter(outcome, w_pages[r])]
  /\ UNCHANGED << processing_status, u_pc, u_file, u_response, w_pc,
                  w_pages, loop_owner, pending, apiFrame >>

\* lines 168-178: process_with_progress returns or raises
WorkerFinish(r) ==
  /\ w_pc[r] = "running" /\ w_todo[r] = << >> /\ pending[r] = NoUpdate
  /\ w_outcome[r] # "none"
  /\ w_pc' = [w_pc EXCEPT ![r] = "finished"]
  /\ UNCHANGED << processing_status, u_pc, u_file, u_response, w_todo,
                  w_outcome, w_pages, loop_owner, pending, apiFrame >>

\* lines 182-216: the coroutine resumes; the finally clause and the
\* handlers clear is_processing, and the request is answered
UploadResume(r) ==
  /\ u_pc[r] = "awaiting" /\ w_pc[r] = "finished" /\ loop_owner = 0
  /\ processing_status' = [processing_status EXCEPT !.is_processing = FALSE]
  /\ u_response' = [u_response EXCEPT ![r] = ResponseAfter(w_outcome[r])]
  /\ u_pc' = [u_pc EXCEPT ![r] = "done"]
  /\ UNCHANGED << u_file, w_pc, w_todo, w_outcome, w_pages, loop_owner,
                  pending, apiFrame >>

(***************************************************************************)
(* PDFQASystem.process_pdf of pdf_qa_system.py over the VectorStore of     *)
(* vector_store.py.  The calls share one vector index; each runs in the    *)
(* thread of its upload, so their steps interleave.  Document p is the     *)
(* one submitted by call p, document 0 the one ingested before.            *)
(***************************************************************************)

MaxCalls == 2
MaxDocChunks == 2

Calls == 1..MaxCalls

\* the vectors of the first n chunks of document d: the id is the chunk's
\* chunk_id (vector_store.py line 91)
DocVectors(d, n) == { [id |-> ChunkName(k), doc |-> d] : k \in 0..(n - 1) }

\* index.upsert: the vector replaces the one of the same id
Upsert(idx, id, d) ==
  { v \in idx : v.id # id } \cup { [id |-> id, doc |-> d] }

\* what a call of the store does: it acts on the index, finds no index
\* (get_index returns None), or an exception is raised under it
ClearOutcomes == { "deleted", "no index", "delete raised" }
AddOutcomes == { "stored", "no index", "encode raised", "upsert raised" }

\* str(e) of the exception PDFProcessor.process_pdf raised
ExtractionError == "extraction error"

NoResult == [success |-> FALSE, chunks_processed |-> 0 - 1, error |-> "none"]

\* lines 43-47 and 50-54
Success(n) == [success |-> TRUE, chunks_processed |-> n, error |-> ""]
Failure(message) ==
  [success |-> FALSE, chunks_processed |-> 0, error |-> message]

StoreIdle ==
  /\ q_pc = << >> /\ q_n = << >> /\ q_i = << >> /\ q_result = << >>
  /\ q_failed = << >> /\ vector_index = {} /\ last_clear = 0

\* the system after __init__, holding the document ingested before; the
\* calls have been made
StoreInit ==
  /\ q_pc = [p \in Calls |-> "new"]
  /\ q_n = [p \in Calls |-> 0]
  /\ q_i = [p \in Calls |-> 0]
  /\ q_result = [p \in Calls |-> NoResult]
  /\ q_failed = [p \in Calls |-> "none"]
  /\ \E n \in 0..MaxDocChunks : vector_index = DocVectors(0, n)
  /\ last_clear = 0

storeFrame == << coreVars, llmVars, apiVars, splitterVars >>

\* a process_pdf that empties the index before it extracts the document
QAExtractAfterClear(p) ==
  /\ q_pc[p] = "new"
  /\ vector_index' = {}
  /\ last_clear' = p
  /\ \/ /\ q_result' = [q_result EXCEPT ![p] = Failure(ExtractionError)]
        /\ q_pc' = [q_pc EXCEPT ![p] = "returned"]
        /\ UNCHANGED q_n
     \/ \E n \in 1..MaxDocChunks :
          /\ q_n' = [q_n EXCEPT ![p] = n]
          /\ q_pc' = [q_pc EXCEPT ![p] = "clear"]
          /\ UNCHANGED q_result
  /\ UNCHANGED << q_i, q_failed, storeFrame >>

\* line 31 and lines 49-54: the chunks of the document, or the failure
\* result when extraction or chunking raises
QAExtract(p) ==
  /\ q_pc[p] = "new"
  /\ \/ /\ q_result' = [q_result EXCEPT ![p] = Failure(ExtractionError)]
        /\ q_pc' = [q_pc EXCEPT ![p] = "returned"]
        /\ UNCHANGED q_n
     \/ \E n \in 1..MaxDocChunks :
          /\ q_n' = [q_n EXCEPT ![p] = n]
          /\ q_pc' = [q_pc EXCEPT ![p] = "clear"]
          /\ UNCHANGED q_result
  /\ UNCHANGED << q_i, q_failed, vector_index, last_clear, storeFrame >>

\* line 34, clear_all_vectors (vector_store.py lines 150-162)
QAClear(p) ==
  /\ q_pc[p] = "clear"
  /\ \E outcome \in ClearOutcomes :
       /\ vector_index' = IF outcome = "deleted" THEN {} ELSE vector_index
       /\ q_failed' =
            IF outcome = "deleted" THEN q_failed
            ELSE [q_failed EXCEPT ![p] = "clear_all_vectors"]
  /\ last_clear' = p
  /\ q_pc' = [q_pc EXCEPT ![p] = "store"]
  /\ UNCHANGED << q_n, q_i, q_result, storeFrame >>

\* lines 37-41, one turn of the loop: add_text (vector_store.py lines
\* 68-101) on the next chunk; whatever is raised under it is caught there
\* (lines 100-101), so the loop goes on
QAAdd(p) ==
  /\ q_pc[p] = "store" /\ q_i[p] < q_n[p]
  /\ \E outcome \in AddOutcomes :
       /\ vector_index' =
            IF outcome = "stored"
            THEN Upsert(vector_index, ChunkName(q_i[p]), p)
            ELSE vector_index
       /\ q_failed' =
            IF outcome = "stored" THEN q_failed
            ELSE [q_failed EXCEPT ![p] = "add_text"]
  /\ q_i' = [q_i EXCEPT ![p] = @ + 1]
  /\ UNCHANGED << q_pc, q_n, q_result, last_clear, storeFrame >>

\* lines 43-47
QAReturn(p) ==
  /\ q_pc[p] = "store" /\ q_i[p] = q_n[p]
  /\ q_result' = [q_result EXCEPT ![p] = Success(q_n[p])]
  /\ q_pc' = [q_pc EXCEPT ![p] = "returned"]
  /\ UNCHANGED << q_n, q_i, q_failed, vector_index, last_clear, storeFrame >>

ServiceIdle == LLMIdle /\ ApiIdle /\ StoreIdle /\ SplitterIdle

(***************************************************************************)
(* Specifications.                                                         *)
(***************************************************************************)

NormalizerNext == Normalize \/ NormalizeAgain

InitNormalizer ==
  NormalizerInit /\ ScorerIdle /\ ChunkerIdle /\ PipelineIdle /\ ServiceIdle

SpecNormalizer == InitNormalizer /\ [][NormalizerNext]_vars

ScorerNext == Evaluate

InitScorer ==
  ScorerInit /\ NormalizerIdle /\ ChunkerIdle /\ PipelineIdle /\ ServiceIdle

SpecScorer == InitScorer /\ [][ScorerNext]_vars

ChunkerNext == ChunkSentence \/ ChunkDone

InitChunker ==
  ChunkerInit /\ NormalizerIdle /\ ScorerIdle /\ PipelineIdle /\ ServiceIdle

SpecChunker == InitChunker /\ [][ChunkerNext]_vars

Init ==
  PipelineInit /\ NormalizerIdle /\ ScorerIdle /\ ChunkerIdle /\ ServiceIdle

Next ==
  \/ Extract \/ LayerPage \/ LayerReturn
  \/ OcrSetup \/ OcrPage \/ OcrReturn
  \/ SelectorFirst \/ SelectorRetry \/ SelectorReturn \/ PageDone
  \/ Abandon
  \/ Clean \/ NotifyChunking \/ Chunk \/ NotifyChunks

Spec == Init /\ [][Next]_vars

LLMNext == BuildPrompt \/ CallGemini \/ CallLlama \/ BuildSources

CoreIdle ==
  NormalizerIdle /\ ScorerIdle /\ ChunkerIdle /\ PipelineIdle /\ SplitterIdle

InitLLM == LLMInit /\ CoreIdle /\ ApiIdle /\ StoreIdle

SpecLLM == InitLLM /\ [][LLMNext]_vars

SplitterNext == Split

InitSplitter ==
  /\ SplitterInit /\ NormalizerIdle /\ ScorerIdle /\ ChunkerIdle
  /\ PipelineIdle /\ LLMIdle /\ ApiIdle /\ StoreIdle

SpecSplitter == InitSplitter /\ [][SplitterNext]_vars

UploadNext(r) ==
  \/ UploadBegin(r) \/ UploadValidate(r) \/ UploadRead(r) \/ UploadSave(r)
  \/ UploadDispatch(r) \/ UploadResume(r)

WorkerNext(r) ==
  \/ WorkerBeginUpdate(r) \/ WorkerEndUpdate(r) \/ WorkerCall(r)
  \/ WorkerFinish(r)

ApiNext == \E r \in Uploads : UploadNext(r) \/ WorkerNext(r)

InitApi == ApiInit /\ CoreIdle /\ LLMIdle /\ StoreIdle

SpecApi == InitApi /\ [][ApiNext]_vars

StoreNext ==
  \E p \in Calls : QAExtract(p) \/ QAClear(p) \/ QAAdd(p) \/ QAReturn(p)

InitStore == StoreInit /\ CoreIdle /\ LLMIdle /\ ApiIdle

SpecStore == InitStore /\ [][StoreNext]_vars

(***************************************************************************)
(* Properties of the normalizer.                                           *)
(***************************************************************************)

\* q occurs in t as a contiguous run
Contains(t, q) ==
  \E k \in 1..(Len(t) - Len(q) + 1) : SubSeq(t, k, k + Len(q) - 1) = q

\* C1: the normalizer is idempotent: normalizing the output of the
\* normalizer gives that output again.
C1_Idempotent == n_pc = "twice" => n_second = n_first

\* a run of whitespace of t lies directly between two Hangul syllables
GapBetweenHangul(t) ==
  \E i, j \in 1..Len(t) :
    /\ i + 1 < j
    /\ IsHangul(t[i]) /\ IsHangul(t[j])
    /\ \A k \in (i + 1)..(j - 1) : IsSpace(t[k])

\* C20: the output of the normalizer has no whitespace lying directly
\* between two Hangul syllables, whatever the input, three or more single
\* syllables separated by spaces included.
C20_NoGapBetweenHangul == n_pc # "start" => ~GapBetweenHangul(n_first)

\* every Hangul syllable followed, after any whitespace or none, by a date
\* (NN.NN.NN) is followed by exactly one space and then the date
DateSpaced(t) ==
  \A k \in 1..Len(t) :
    (IsHangul(t[k]) /\ DateEnd(t, SkipWhile(t, k + 1, Whitespace)) # 0)
      => (t[k + 1] = " " /\ DateEnd(t, k + 2) # 0)

\* no term of the correction table occurs split by whitespace
TermsJoined(t) ==
  \A c \in 1..Len(name_corrections) : \A k \in 1..(Len(t) - 1) :
    (t[k] = name_corrections[c][1] /\ IsSpace(t[k + 1]))
      => LET s == SkipWhile(t, k + 1, Whitespace)
         IN  ~(s <= Len(t) /\ t[s] = name_corrections[c][2])

\* "이름" and "김철수 (90.01.01)"
Scenario1Name == << "I", "REUM" >>
Scenario1Date == << "GIM", "CHEOL", "SU", " " >> \o Date

\* C10: in the normalizer's output every Hangul run followed by a date is
\* separated from '(' by exactly one space and the split domain terms are
\* joined; the text of scenario 1 normalizes to a text containing "이름"
\* and "김철수 (90.01.01)".
C10_DateSpacingAndTerms ==
  n_pc # "start" =>
    /\ DateSpaced(n_first)
    /\ TermsJoined(n_first)
    /\ n_input = Scenario1 =>
         Contains(n_first, Scenario1Name) /\ Contains(n_first, Scenario1Date)

\* scenario 1 has been normalized, and so has a text whose date directly
\* follows the name
C10_Witness ==
  /\ n_pc = "once"
  /\ n_input = Scenario1
  /\ n_first = Scenario1Name \o << " ", ":", " " >> \o Scenario1Date

(***************************************************************************)
(* Properties of the quality scorer.                                       *)
(***************************************************************************)

\* C4: the score lies in [0, 1], and the score of an empty or
\* whitespace-only text is 0.
C4_ScoreBounds ==
  s_pc = "scored" =>
    /\ s_score.den > 0
    /\ 0 <= s_score.num
    /\ s_score.num <= s_score.den
    /\ Strip(s_text) = << >> => s_score.num = 0

\* a text whose weighted sum exceeds 1 has been scored 1
C4_Witness ==
  /\ s_pc = "scored"
  /\ Strip(s_text) # << >>
  /\ FinalScore(s_text).num > FinalScore(s_text).den
  /\ s_score.num = s_score.den

\* the occurrences of a surname followed by 1 to 3 Hangul syllables, each
\* counted once, a parenthesised date after it or not
NameOccurrences(t) == ReCount(NameEnd, t)

\* min(1, 0.6 * basic + 0.3 * 0.2 * occurrences + 0.1 * special_score) for
\* a text with a character other than a space
WeightedScore(t) ==
  LET total_chars == Len(t) - Count(t, {" "})
      letters == Count(t, Hangul) + Count(t, Latin)
      num == 60 * letters + 6 * NameOccurrences(t) * total_chars
               + 10 * Max(0, total_chars - 3 * SpecialChars(t))
  IN  [num |-> Min(num, 100 * total_chars), den |-> 100 * total_chars]

\* C24: name_score is 0.2 times the number of occurrences of a name, an
\* occurrence counting once whether or not a parenthesised date follows
\* it, and the score is min(1, 0.6 * basic + 0.3 * name_score + 0.1 *
\* special_score).
C24_NameCountedOnce ==
  (s_pc = "scored" /\ Len(s_text) - Count(s_text, {" "}) > 0
     /\ Strip(s_text) # << >>) =>
    SameScore(s_score, WeightedScore(s_text))

(***************************************************************************)
(* Properties of the chunker.                                              *)
(***************************************************************************)

\* the words of a text: the spans between spaces
RECURSIVE WordsFrom(_, _, _)
WordsFrom(t, i, start) ==
  IF i > Len(t) THEN { Slice(t, start, i) }
  ELSE IF t[i] = " " THEN { Slice(t, start, i) } \cup WordsFrom(t, i + 1, i + 1)
       ELSE WordsFrom(t, i + 1, start)

\* the units packed into a chunk text, as indices into sentences
UnitsOf(text) ==
  { k \in 1..Len(sentences) : sentences[k] \in WordsFrom(text, 1, 1) }

RECURSIVE SumTokens(_)
SumTokens(K) ==
  IF K = {} THEN 0
  ELSE LET k == CHOOSE x \in K : TRUE IN tokens[k] + SumTokens(K \ {k})

WithinBudget(chunk) ==
  /\ chunk.token_count = SumTokens(UnitsOf(chunk.text))
  /\ \/ chunk.token_count <= chunk_size
     \/ \E k \in 1..Len(sentences) :
          chunk.text = sentences[k] /\ tokens[k] > chunk_size

\* C2: every chunk has a token count of at most the budget, except a chunk
\* that consists of exactly one sentence unit whose own token count
\* exceeds the budget.
C2_ChunkBudget ==
  /\ \A k \in 1..Len(loop.chunks) : WithinBudget(loop.chunks[k])
  /\ \A k \in 1..Len(returned) : WithinBudget(returned[k])

\* chunk_text returned a chunk filled exactly to the budget by several
\* units and a chunk made of one oversized unit
C2_Witness ==
  /\ c_pc = "returned"
  /\ \E k \in 1..Len(returned) :
       /\ returned[k].token_count = chunk_size
       /\ Cardinality(UnitsOf(returned[k].text)) >= 2
  /\ \E k \in 1..Len(returned) : returned[k].token_count > chunk_size

DenseIds(cs) ==
  \A k \in 1..Len(cs) : cs[k].chunk_id = ChunkName(k - 1)

\* C3: the chunks carry the ids chunk_0, chunk_1, ... in emission order,
\* zero-based and without gap or repeat, also when an oversized first unit
\* closes an empty current chunk.
C3_DenseChunkIds ==
  /\ DenseIds(loop.chunks)
  /\ c_pc = "returned" =>
       DenseIds(returned) /\ Len(returned) = Len(CloseChunk(loop).chunks)

\* chunk_text returned several chunks for a text whose first unit alone
\* exceeds the budget
C3_Witness ==
  /\ c_pc = "returned"
  /\ Len(sentences) >= 2
  /\ tokens[1] > chunk_size
  /\ Len(returned) >= 2

\* the units k..n joined as the loop joins them: each followed by a space
RECURSIVE Packed(_, _)
Packed(k, n) ==
  IF k > n THEN << >> ELSE sentences[k] \o << " " >> \o Packed(k + 1, n)

\* C11: greedy packing admits a unit whenever the running total stays at
\* or below the budget: units whose token counts sum to at most the budget
\* are packed into exactly one chunk holding all of them in order; so are
\* three units of a third of the budget each, whose sum is the budget.
C11_PacksUpToBudget ==
  (c_pc = "returned" /\ Len(sentences) >= 1
     /\ SumTokens(1..Len(sentences)) <= chunk_size)
    => /\ Len(returned) = 1
       /\ returned[1].text = Strip(Packed(1, Len(sentences)))
       /\ returned[1].token_count = SumTokens(1..Len(sentences))

\* three units of a third of the budget each were returned as one chunk
\* whose token count is the budget
C11_Witness ==
  /\ c_pc = "returned"
  /\ Len(sentences) = 3
  /\ \A k \in 1..3 : 3 * tokens[k] = chunk_size
  /\ Len(returned) = 1
  /\ returned[1].token_count = chunk_size
  /\ UnitsOf(returned[1].text) = {1, 2, 3}

\* the texts of the chunks read in emission order, each followed by the
\* space that separates units
JoinChunks(cs) == Flatten([k \in 1..Len(cs) |-> cs[k].text \o << " " >>])

\* C25: chunk_text neither splits nor drops a sentence unit: the chunks
\* read in emission order give the units of the list in order, every unit
\* is whole in exactly one chunk, and no chunk is empty.
C25_UnitsKeptWhole ==
  c_pc = "returned" =>
    /\ \A c \in 1..Len(returned) : returned[c].text # << >>
    /\ JoinChunks(returned) = Packed(1, Len(sentences))
    /\ \A k \in 1..Len(sentences) :
         Cardinality({ c \in 1..Len(returned) :
                        k \in UnitsOf(returned[c].text) }) = 1

\* chunk_text returned several chunks, one of them holding several units
C25_Witness ==
  /\ c_pc = "returned"
  /\ Len(returned) >= 2
  /\ \E c \in 1..Len(returned) : Cardinality(UnitsOf(returned[c].text)) >= 2
  /\ \E c \in 1..Len(returned) : Cardinality(UnitsOf(returned[c].text)) = 1

(***************************************************************************)
(* Properties of the selector.                                             *)
(***************************************************************************)

\* the attempts of the current page that returned a text
Scored == { k \in 1..Len(attempts) : attempts[k].out # Throw }

ScoreOf(k) == _evaluate_text_quality_fast(attempts[k].out)

\* C5: when the selector returns, the text it emits is that of a candidate
\* whose score is the maximum among the recognition attempts made for the
\* page.  (The empty text scores 0: emitting it is taken as emitting a
\* best candidate when no attempt of the page scored more than 0.)
C5_EmitsBestCandidate ==
  (pc = "page_done" /\ Scored # {}) =>
    \/ \E k \in Scored :
         /\ sel_text = _clean_text_fast(attempts[k].out)
         /\ \A m \in Scored : ~Less(ScoreOf(k), ScoreOf(m))
    \/ sel_text = << >> /\ \A m \in Scored : ~Less(Zero, ScoreOf(m))

\* C6: the attempt on the preprocessed bitmap is made if and only if the
\* first attempt's score is strictly below 0.3; a first attempt scoring
\* 0.3 or more is the only attempt of its page.
C6_RetryIffLowConfidence ==
  /\ Len(attempts) <= 2
  /\ pc = "retry" =>
       Len(attempts) = 1 /\ 1 \in Scored /\ Less(ScoreOf(1), Threshold)
  /\ Len(attempts) = 2 =>
       /\ attempts[1].source = "original"
       /\ 1 \in Scored /\ Less(ScoreOf(1), Threshold)
       /\ attempts[2].source = "preprocessed"
       /\ attempts[2].image = processed_image
  /\ (pc \in {"selector_clean", "page_done"} /\ 1 \in Scored
        /\ Less(ScoreOf(1), Threshold)) => Len(attempts) = 2

\* a first attempt scoring exactly 0.3 was the only attempt of its page
C6_Witness ==
  /\ pc = "page_done"
  /\ Len(attempts) = 1
  /\ 1 \in Scored
  /\ SameScore(ScoreOf(1), Threshold)
  /\ chosen = "original"

\* C12: when every scored attempt of a page has thrown, the selector makes
\* one last unscored attempt on the image it was given and emits that
\* attempt's output.
C12_FallbackAttempt ==
  (pc = "page_done" /\ attempts # << >> /\ Scored = {}) =>
    \E k \in 1..Len(attempts) :
      /\ attempts[k].source = "fallback"
      /\ attempts[k].image = sel_image
      /\ sel_text = attempts[k].out

\* C19: on each page the selector's first attempt is made on the bitmap the
\* renderer produced, not preprocessed; the second attempt is made on that
\* bitmap preprocessed exactly once.
C19_FirstAttemptOnOriginal ==
  \A k \in 1..Len(attempts) :
    /\ attempts[k].source = "original" => attempts[k].image.passes = 0
    /\ attempts[k].source = "preprocessed" => attempts[k].image.passes = 1

\* C23: once the caller has abandoned the request, the page being
\* processed may finish, but no step hands a further page to recognition.
C23_NoPageAfterAbandon ==
  [][abandoned => ~(pc = "ocr_loop" /\ pc' = "selector")]_vars

\* C13: an attempt that throws counts as a candidate of score 0: the
\* exception does not leave the selector, and when the attempt on the
\* preprocessed image throws after the first attempt returned a text, the
\* selector emits the first attempt's text, as it does when the second
\* attempt scores 0.
C13_ThrowIsZeroScore ==
  pc = "page_done" =>
    /\ status = "running"
    /\ (Len(attempts) = 2 /\ 1 \in Scored /\ attempts[2].out = Throw)
         => sel_text = _clean_text_fast(attempts[1].out)

(***************************************************************************)
(* Properties of the orchestrator.                                         *)
(***************************************************************************)

\* extract_text_from_pdf got past the normalizer
Normalized ==
  \/ pc \in {"notify_chunking", "chunk", "notify_chunks"}
  \/ pc = "done" /\ error \notin {"ocr_error", "ocr_unavailable"}

\* C7: when recognition yields the empty text for every page, the
\* extraction fails with the "no extractable text" error and no chunks
\* are produced.
C7_EmptyRecognitionFails ==
  (use_ocr /\ Normalized /\ \A k \in 1..Len(page_texts) : page_texts[k] = << >>)
    => /\ status = "failed"
       /\ error = "no_text"
       /\ extracted = NoText
       /\ chunks = NoChunks

\* a document of several pages, each recognized as the empty text, failed
C7_Witness ==
  /\ pc = "done"
  /\ use_ocr
  /\ n_pages >= 2
  /\ Len(page_texts) = n_pages
  /\ \A k \in 1..Len(page_texts) : page_texts[k] = << >>
  /\ ocr_calls >= n_pages
  /\ Scored # {}
  /\ status = "failed"
  /\ error = "no_text"

\* the text-layer extraction of the pages' texts, in page order
LayerExtraction(q) ==
  Flatten([k \in 1..Len(q) |->
             IF q[k] = << >> THEN << >> ELSE q[k] \o << "\n" >>])

\* C8: with OCR disabled the output of extract_text_from_pdf is the
\* normalizer applied to the page-ordered text-layer extraction, and the
\* renderer, the preprocessor and the recognition engine are never called.
C8_LayerOnlyWhenOcrDisabled ==
  (pc # "idle" /\ ~use_ocr) =>
    /\ render_calls = 0 /\ preprocess_calls = 0 /\ ocr_calls = 0
    /\ attempts = << >>
    /\ Normalized =>
         LET expected == _clean_text(LayerExtraction(page_texts))
         IN  IF Strip(expected) = << >>
             THEN status = "failed" /\ error = EmptyTextError
             ELSE extracted = expected

\* a document with two different text-layer pages was extracted with OCR
\* disabled, and the normalizer changed the text
C8_Witness ==
  /\ pc = "done"
  /\ ~use_ocr
  /\ status = "done"
  /\ Len(page_texts) >= 2
  /\ page_texts[1] # << >> /\ page_texts[2] # << >>
  /\ page_texts[1] # page_texts[2]
  /\ extracted # LayerExtraction(page_texts)

\* the OCR extraction of the pages' texts, in page order
OcrExtraction(q) == Flatten([k \in 1..Len(q) |-> q[k] \o << "\n" >>])

\* C14: the document text is the concatenation of the per-page texts in
\* page order, on the OCR path and on the text-layer path: the pages are
\* appended as 1, 2, ..., each once, and the text given to the normalizer
\* is the texts of pages 1..n joined in that order.
C14_PageOrder ==
  pc # "idle" =>
    /\ Len(page_texts) = Len(page_order)
    /\ \A k \in 1..Len(page_order) : page_order[k] = k
    /\ doc_text = IF use_ocr THEN OcrExtraction(page_texts)
                  ELSE LayerExtraction(page_texts)
    /\ pc = "clean" => Len(page_order) = n_pages

\* the text of a document of several pages with different recognized
\* texts is about to be normalized
C14_Witness ==
  /\ pc = "clean"
  /\ use_ocr
  /\ n_pages >= 2
  /\ page_order = [k \in 1..n_pages |-> k]
  /\ page_texts[1] # << >> /\ page_texts[2] # << >>
  /\ page_texts[1] # page_texts[2]

\* a required recognition or imaging library, or the Tesseract engine, is
\* missing
RecognitionUnavailable ==
  \/ ~OCR_AVAILABLE
  \/ ~(PYMUPDF_AVAILABLE \/ PDF2IMAGE_AVAILABLE)
  \/ ~tesseract_installed

\* C15: for a processor constructed with use_ocr=True, an unavailable
\* recognition subsystem is not fatal: no OCR error is raised, and the
\* text that reaches the normalizer is the text-layer extraction of every
\* page, made without the renderer and the recognition engine.
C15_DegradesToTextLayer ==
  (pc # "idle" /\ use_ocr_arg /\ RecognitionUnavailable) =>
    /\ error \notin {"ocr_error", "ocr_unavailable"}
    /\ Normalized =>
         /\ render_calls = 0 /\ ocr_calls = 0
         /\ doc_text = LayerExtraction(page_texts)

\* C9: the percents passed to the progress callback are each within
\* 0..100 and never decrease.
C9_ProgressMonotone ==
  \A k \in 1..Len(progress) :
    /\ progress[k].den > 0
    /\ 0 <= progress[k].num
    /\ progress[k].num <= 100 * progress[k].den
    /\ k < Len(progress) => ~Less(progress[k + 1], progress[k])

\* a document of several pages was processed by OCR with a callback, which
\* received one percent per page and the two of process_pdf
C9_Witness ==
  /\ pc = "done"
  /\ status = "done"
  /\ use_ocr
  /\ n_pages >= 2
  /\ Len(progress) = n_pages + 2
  /\ Less(progress[1], progress[2])
  /\ Less(progress[2], Percent(50, 1))

(***************************************************************************)
(* Properties of the answer service.                                       *)
(***************************************************************************)

\* the provider was called, and the call gave this outcome
Called(provider) ==
  \E k \in 1..Len(provider_calls) : provider_calls[k].provider = provider

Gave(provider, out) ==
  \E k \in 1..Len(provider_calls) :
    provider_calls[k].provider = provider /\ provider_calls[k].out = out

\* C16: the fallback provider is called if and only if the call of the
\* primary provider failed and the fallback is enabled, never when the
\* primary succeeded; and model_used names the provider whose answer is
\* returned, or is the error marker when the apology is returned.
C16_FallbackIffPrimaryFails ==
  /\ Called(Llama) => (Gave(Gemini, ProviderError) /\ use_fallback)
  /\ g_pc \in {"sources", "returned"} =>
       (Called(Llama) <=> (Gave(Gemini, ProviderError) /\ use_fallback))
  /\ g_pc = "returned" =>
       \/ /\ model_used = Gemini /\ answer \in ProviderAnswers
          /\ Gave(Gemini, answer) /\ ~Called(Llama)
       \/ /\ model_used = Llama /\ answer \in ProviderAnswers
          /\ Gave(Llama, answer) /\ Gave(Gemini, ProviderError)
       \/ model_used = ErrorMarker /\ answer = Apology

\* the primary failed, the enabled fallback answered, and its answer was
\* returned with the sources under the fallback's name
C16_Witness ==
  /\ g_pc = "returned"
  /\ use_fallback
  /\ provider_calls = << [provider |-> Gemini, out |-> ProviderError],
                         [provider |-> Llama, out |-> answer] >>
  /\ answer \in ProviderAnswers
  /\ model_used = Llama
  /\ Len(source) = MaxChunks


\* C29: the context built from the retrieved chunks is at most max_length
\* characters long, also when the last chunk is cut to fit and the
\* ellipsis is appended.
C29_ContextWithinMaximum ==
  (g_pc \notin { "idle", "start" }
     /\ _combine_chunks_optimized(similar_chunks) # KeyError) =>
    Len(_combine_chunks_optimized(similar_chunks)) <= max_length

(***************************************************************************)
(* Properties of the upload endpoint.                                      *)
(***************************************************************************)

\* the threads of control that are inside a block of writes to
\* processing_status
Writers == { t \in Threads : pending[t] # NoUpdate }

\* C17: processing_status is written by at most one writer at a time: in
\* no interleaving of upload requests are two threads of control inside a
\* block of writes to it at once.
C17_SingleWriter == Cardinality(Writers) <= 1

\* C22: the entry point the upload calls takes the path and the progress
\* callback, so an upload of a valid PDF ends answered 200, its worker
\* having reported progress 100.
C22_UploadCompletes ==
  \A r \in Uploads :
    (u_pc[r] = "done" /\ u_file[r] = "ok") =>
      /\ u_response[r] = 200
      /\ w_outcome[r] = "success"

\* C28: while an upload request is being processed the status reports
\* is_processing true, and once every request has ended (answered 200 or
\* rejected or failed) it reports is_processing false.
C28_IsProcessingTracksUploads ==
  /\ (\E r \in Uploads : u_pc[r] \notin { "new", "done" }) =>
       processing_status.is_processing
  /\ (\A r \in Uploads : u_pc[r] = "done") =>
       ~processing_status.is_processing

(***************************************************************************)
(* Properties of the document store.                                       *)
(***************************************************************************)

\* C18: when embedding or upserting a chunk fails while a document is
\* stored, process_pdf returns a failure that carries the underlying
\* message; it does not return success with that chunk counted.
C18_StoreFailureSurfaces ==
  \A p \in Calls :
    (q_pc[p] = "returned" /\ q_failed[p] = "add_text") =>
      /\ ~q_result[p].success
      /\ q_result[p].error \in AddOutcomes \ { "stored" }


(***************************************************************************)
(* Properties of the sentence splitter.                                    *)
(***************************************************************************)

\* u is one of the matches of the name patterns in the text
NameUnit(u) == InSeq(u, NameSentences(p_text))

\* the delimiter-bounded spans of the text that are longer than 3
\* characters, in the order of the text
Spans == CleanedSentences(ReSplit(p_text))

\* the place of the first occurrence of x in q
FirstIn(x, q) == CHOOSE k \in 1..Len(q) : q[k] = x /\ \A j \in 1..(k - 1) : q[j] # x

FailedExtraction == { p \in Calls : q_pc[p] = "returned" /\ ~q_result[p].success }

\* C26: when extraction or chunking fails, process_pdf returns success
\* false with the error and invokes neither clear_all_vectors nor add_text:
\* the index holds no vector of the call, and while no other call has
\* passed extraction it holds the document ingested before, untouched.
C26_FailureLeavesIndex ==
  /\ \A p \in FailedExtraction :
       /\ q_result[p].error = ExtractionError
       /\ q_i[p] = 0 /\ q_failed[p] = "none" /\ last_clear # p
       /\ \A v \in vector_index : v.doc # p
  /\ (\A p \in Calls : q_pc[p] = "new" \/ p \in FailedExtraction) =>
       /\ last_clear = 0
       /\ \E n \in 0..MaxDocChunks : vector_index = DocVectors(0, n)

\* a call has failed at extraction and the document ingested before is
\* in the index
C26_Witness ==
  /\ FailedExtraction # {}
  /\ \A p \in Calls : q_pc[p] = "new" \/ p \in FailedExtraction
  /\ vector_index = DocVectors(0, MaxDocChunks)

\* C27: when all calls have returned, every method of the store having
\* done its work, the index holds exactly the chunks of one document (the
\* one ingested before when no call cleared the index), never chunks of
\* two documents, also when the calls overlapped.
C27_OneDocumentInIndex ==
  (\A p \in Calls : q_pc[p] = "returned" /\ q_failed[p] = "none") =>
    IF last_clear = 0
    THEN \E n \in 0..MaxDocChunks : vector_index = DocVectors(0, n)
    ELSE \E d \in Calls : vector_index = DocVectors(d, q_n[d])

====
